---- MODULE Spec2Model ----
(***************************************************************************)
(* Model of the legacy-authentics site: the three API route handlers       *)
(* (GET /api/verify, POST /api/upload, GET /api/report) and the two client *)
(* pages that call them (UploadPage.handleUpload, VerifyPage.verify).      *)
(*                                                                         *)
(* JavaScript strings that the code concatenates are sequences of tokens   *)
(* (a token is a literal of the source or an opaque piece such as a UUID), *)
(* so that 'a' + b is Concat and "starts with"/"contains" are computed.    *)
(* An async handler is cut where the source awaits: one action per         *)
(* synchronous segment.                                                    *)
(***************************************************************************)
EXTENDS Integers, Sequences, FiniteSets

VARIABLES
  calls,    \* server: the requests received so far, in arrival order, each with its handler's position
  now,      \* the wall clock, in seconds (what new Date() reads)
  file,     \* UploadPage: useState file
  status,   \* UploadPage: useState status
  runs,     \* UploadPage: the invocations of handleUpload, each with its locals and position
  code,     \* VerifyPage: useState code
  result,   \* VerifyPage: useState result
  submits   \* VerifyPage: the invocations of verify, in click order

vars == <<calls, now, file, status, runs, code, result, submits>>

\* ------------------------------------------------------------------ bounds

MaxCalls == 3
MaxClock == 1
MaxRuns == 2
MaxSubmits == 2

\* ------------------------------------------------------- JavaScript values

Undefined == [t |-> "undefined", v |-> <<>>]
Null == [t |-> "null", v |-> <<>>]
Str(tokens) == [t |-> "string", v |-> tokens]

\* 'a' + b: string concatenation, b converted by JsToString
JsToString(val) ==
  CASE val.t = "string" -> val.v
    [] val.t = "undefined" -> <<"undefined">>
    [] val.t = "null" -> <<"null">>

Concat(tokens, val) == tokens \o JsToString(val)

\* obj.name of a parsed JSON object: undefined when the field is absent
Field(obj, name) == IF name \in DOMAIN obj THEN obj[name] ELSE Undefined

Contains(tokens, part) ==
  \E i \in 1..(Len(tokens) - Len(part) + 1) :
     SubSeq(tokens, i, i + Len(part) - 1) = part

NoResp == [status |-> 0, ok |-> FALSE, headers |-> [none |-> TRUE], body |-> [none |-> TRUE]]

\* NextResponse.json(obj): status 200
NextResponseJson(obj) ==
  [status |-> 200, ok |-> TRUE,
   headers |-> [ContentType |-> "application/json"],
   body |-> obj]

\* What the framework answers when a route handler's promise rejects.
UnhandledRejection ==
  [status |-> 500, ok |-> FALSE,
   headers |-> [ContentType |-> "text/plain"],
   body |-> [text |-> "Internal Server Error"]]

\* ------------------------------------------------------- GET /api/verify

\* The raw values a query string carries in this model, and what
\* URLSearchParams decodes each to.
RawValues == {"VALID123", "valid123", "%20VALID123%20", "", "VALID%31%32%33"}

PercentDecode(raw) ==
  CASE raw = "%20VALID123%20" -> " VALID123 "
    [] raw = "VALID%31%32%33" -> "VALID123"
    [] OTHER -> raw

\* encodeURIComponent on the codes the page can hold
EncodeURIComponent(s) ==
  CASE s = " VALID123 " -> "%20VALID123%20"
    [] OTHER -> s

\* A query is a sequence of <<name, raw value>> pairs.
Queries ==
  { << >> }
  \cup { << <<"code", r>> >> : r \in RawValues }
  \cup { << <<"id", "VALID123">> >>,
         << <<"code", "INVALID">>, <<"code", "VALID123">> >> }

Min(S) == CHOOSE m \in S : \A k \in S : m <= k

\* req.nextUrl.searchParams.get(name): the first pair named name, decoded; null if none
SearchParamsGet(query, name) ==
  LET idx == {i \in 1..Len(query) : query[i][1] = name}
  IN IF idx = {} THEN Null ELSE Str(<<PercentDecode(query[Min(idx)][2])>>)

VerifyGETCaseInsensitive(query) ==
  LET c == SearchParamsGet(query, "code")
  IN IF c \in {Str(<<"VALID123">>), Str(<<"valid123">>)}
       THEN NextResponseJson([valid |-> TRUE, issuedAt |-> "2024-01-01"])
       ELSE NextResponseJson([valid |-> FALSE])

VerifyGETExpiring(query) ==
  LET c == SearchParamsGet(query, "code")
  IN IF c = Str(<<"VALID123">>) /\ now = 0
       THEN NextResponseJson([valid |-> TRUE, issuedAt |-> "2024-01-01"])
       ELSE NextResponseJson([valid |-> FALSE])

VerifyGET(query) ==
  LET c == SearchParamsGet(query, "code")
  IN IF c = Str(<<"VALID123">>)
       THEN NextResponseJson([valid |-> TRUE, issuedAt |-> "2024-01-01"])
       ELSE NextResponseJson([valid |-> FALSE])

\* ------------------------------------------------------- POST /api/upload

\* The values crypto.randomUUID() returns in this model.  The handler keeps no
\* record of earlier keys, so a draw may repeat a value drawn before.
UUIDs == {"uuid-a", "uuid-b"}

\* The handlers never look inside a UUID, so the values not drawn yet are
\* interchangeable: a draw is a value drawn before or the first one not drawn.
UUIDOrder == <<"uuid-a", "uuid-b">>

Draws(drawn) ==
  { UUIDOrder[k] : k \in {n \in 1..Len(UUIDOrder) : n = 1 \/ UUIDOrder[n - 1] \in drawn} }

ExpiresIn == 60

PutObjectCommand(key) ==
  [Bucket |-> "AWS_BUCKET_NAME", Key |-> key, ContentType |-> "application/octet-stream"]

\* getSignedUrl(s3, command, {expiresIn}): the URL carries what was signed
GetSignedUrl(command, expiresIn) ==
  [t |-> "url", v |-> <<>>, bucket |-> command.Bucket, key |-> command.Key,
   contentType |-> command.ContentType, expires |-> expiresIn]

IssuerJsonWithKey(uploadUrl, key) == [uploadUrl |-> uploadUrl, key |-> Str(key)]

\* the object handed to NextResponse.json: { uploadUrl }
IssuerJson(uploadUrl, key) == [uploadUrl |-> uploadUrl]

\* POST up to its await: the key, the command, the call to getSignedUrl
POSTBegin(u, origin) ==
  LET key == <<"uploads/", u>>
  IN [kind |-> "upload", origin |-> origin, pc |-> "signing", key |-> key,
      command |-> PutObjectCommand(key), resp |-> NoResp]

\* POST after getSignedUrl resolved
POSTSigned(call) ==
  LET uploadUrl == GetSignedUrl(call.command, ExpiresIn)
  IN [call EXCEPT !.pc = "done",
                  !.resp = NextResponseJson(IssuerJson(uploadUrl, call.key))]

\* getSignedUrl rejected (no credentials, no region): nothing catches it
POSTRejected(call) ==
  [call EXCEPT !.pc = "done", !.resp = UnhandledRejection]

\* ------------------------------------------------------- GET /api/report

PageWidth == 612
PageHeight == 792
TitleSize == 24
FontSize == 12
\* fontSize * 1.4, in tenths of a point
LineHeight10 == 168

Title == "Sample Autograph Verification Report"

\* The body literal: in the source the paragraphs are separated by the two
\* characters backslash and n, twice ('\\n\\n' in a single-quoted literal).
Body ==
  << "This sample report illustrates the format of your certificate.",
     "\\n", "\\n",
     "Your authentic autograph will be thoroughly analyzed [...] comparative signature analysis.",
     "\\n", "\\n",
     "Each report is digitally signed [...] using our verification page." >>

\* String.prototype.split(sep) on a token sequence: the pieces between separators
RECURSIVE SplitFrom(_, _, _, _)
SplitFrom(tokens, sep, i, cur) ==
  IF i > Len(tokens) THEN <<cur>>
  ELSE IF tokens[i] = sep THEN <<cur>> \o SplitFrom(tokens, sep, i + 1, <<>>)
  ELSE SplitFrom(tokens, sep, i + 1, Append(cur, tokens[i]))

Split(tokens, sep) == SplitFrom(tokens, sep, 1, <<>>)

\* PDFDocument.create(): an empty document.  pdf-lib's create() stamps the
\* document's Info dictionary (Producer, Creator, CreationDate, ModDate) with
\* new Date() unless told updateMetadata: false; the handler passes no option
\* and never sets the dates itself.
PDFDocumentCreate(clock) ==
  [info |-> [Producer |-> "pdf-lib", CreationDate |-> clock, ModDate |-> clock],
   pages |-> <<>>, fonts |-> {}, ops |-> <<>>]

\* lines 11-13: addPage([612, 792]), getSize, the call to embedFont
AddPageAndFont(doc) ==
  [doc EXCEPT !.pages = <<[width |-> PageWidth, height |-> PageHeight]>>,
              !.fonts = {"Helvetica"}]

DrawTitle(doc) ==
  [doc EXCEPT !.ops = Append(@,
     [text |-> <<Title>>, centredIn |-> doc.pages[1].width,
      y10 |-> (doc.pages[1].height - 80) * 10, size |-> TitleSize])]

\* the for loop of lines 29-39 from line k on, y in tenths of a point
RECURSIVE DrawLines(_, _, _, _)
DrawLines(doc, lines, k, y10) ==
  IF k > Len(lines) THEN doc
  ELSE DrawLines(
         [doc EXCEPT !.ops = Append(@,
            [text |-> lines[k], x |-> 50, y10 |-> y10, size |-> FontSize,
             maxWidth |-> doc.pages[1].width - 100, lineHeight10 |-> LineHeight10])],
         lines, k + 1, y10 - LineHeight10)

\* lines 15-39
DrawReport(doc) ==
  DrawLines(DrawTitle(doc), Split(Body, "\\n"), 1, (doc.pages[1].height - 130) * 10)

\* pdfDoc.save(): the bytes are the serialised document, Info dictionary included
Save(doc) == [pdf |-> doc]

\* new NextResponse(Buffer.from(pdfBytes), {headers}): no status given, so 200
ReportRespond(bytes) ==
  [status |-> 200, ok |-> TRUE,
   headers |-> [ContentType |-> "application/pdf",
                ContentDisposition |-> "attachment; filename=\"sample-report.pdf\""],
   body |-> bytes]

ReportCatchRethrow(call) ==
  [call EXCEPT !.pc = "escaped", !.threw = TRUE, !.resp = UnhandledRejection]

\* the catch block: console.error, then the plain-text 500
ReportCatch(call) ==
  [call EXCEPT !.pc = "done", !.threw = TRUE,
               !.resp = [status |-> 500, ok |-> FALSE,
                         headers |-> [ContentType |-> "text/plain"],
                         body |-> [text |-> "Failed to generate report"]]]

\* GET up to its first await: PDFDocument.create() is called, and reads the clock
ReportBegin(clock) ==
  [kind |-> "report", pc |-> "create", threw |-> FALSE,
   doc |-> PDFDocumentCreate(clock), resp |-> NoResp]


\* --------------------------------------------- UploadPage.handleUpload

\* The files the input can hand over: one with a declared type, one with none
\* (File.type is the empty string when the browser cannot tell).
Files ==
  { [t |-> "file", v |-> <<>>, type |-> "image/png"],
    [t |-> "file", v |-> <<>>, type |-> ""] }

ErrorObj(message) == [t |-> "error", v |-> <<>>, message |-> Str(<<message>>)]

\* what fetch rejects with when the request cannot be made or is cut
FetchFailed == ErrorObj("Failed to fetch")

\* err?.message ?? 'unknown'
ErrMessage(err) ==
  IF Field(err, "message") \in {Undefined, Null}
    THEN Str(<<"unknown">>)
    ELSE Field(err, "message")

\* a fetch the page sends
PostRequest == [method |-> "POST", url |-> "/api/upload"]

\* lines 86-92: the PUT, with 'Content-Type': file.type || 'application/octet-stream'
PutRequest(uploadUrl, f) ==
  [method |-> "PUT", url |-> uploadUrl, body |-> f,
   contentType |-> IF f.type = "" THEN "application/octet-stream" ELSE f.type]

\* Each segment of handleUpload maps the run's locals and the page's status to
\* their values at the next await (or at the end): [run |-> ..., status |-> ...].
\* posts and puts are the requests the run has sent.

\* handleUpload returns: its locals are gone; what it sent, which connection it
\* used and what storage answered stay on record
Return(run, pc) ==
  [run EXCEPT !.pc = pc, !.file = Null, !.res = NoResp,
              !.uploadUrl = Undefined, !.key = Undefined]

CatchUploadRetry(run, err) ==
  [run |-> [run EXCEPT !.pc = "awaitPost", !.conn = 0, !.res = NoResp,
                       !.posts = Append(@, PostRequest)],
   status |-> Concat(<<"Error: ">>, ErrMessage(err))]

\* lines 95-97: the catch block
CatchUpload(run, err) ==
  [run |-> Return(run, "failed"),
   status |-> Concat(<<"Error: ">>, ErrMessage(err))]

\* lines 75-81: the click, up to the await of the POST (file is not null here)
HandleUploadStart(f) ==
  [run |-> [pc |-> "awaitPost", file |-> f, conn |-> 0,
            res |-> NoResp, uploadUrl |-> Undefined, key |-> Undefined,
            uploadRes |-> NoResp,
            posts |-> <<PostRequest>>, puts |-> <<>>],
   status |-> <<"Generating upload URL...">>]

OnPostResponseNoOkCheck(run, res, st) ==
  [run |-> [run EXCEPT !.res = res, !.pc = "awaitJson"], status |-> st]

\* line 82 and the call of res.json() on line 83
OnPostResponse(run, res, st) ==
  IF ~res.ok
    THEN CatchUpload([run EXCEPT !.res = res], ErrorObj("Failed to get upload URL"))
    ELSE [run |-> [run EXCEPT !.res = res, !.pc = "awaitJson"], status |-> st]

\* lines 83-92: the destructuring, the status, the PUT sent
OnJson(run, json) ==
  LET uploadUrl == Field(json, "uploadUrl")
      key == Field(json, "key")
  IN [run |-> [run EXCEPT !.uploadUrl = uploadUrl, !.key = key,
                          !.puts = Append(@, PutRequest(uploadUrl, run.file)),
                          !.pc = "awaitPut"],
      status |-> <<"Uploading to secure storage...">>]

\* lines 93-94
OnPutResponse(run, uploadRes) ==
  IF ~uploadRes.ok
    THEN CatchUpload([run EXCEPT !.uploadRes = uploadRes], ErrorObj("Upload failed"))
    ELSE [run |-> Return([run EXCEPT !.uploadRes = uploadRes], "done"),
          status |-> Concat(<<"Upload complete! Your file key is ">>, run.key)]

\* what storage answers a PUT with: it accepts the write, or refuses it
\* (expired or mismatched signature)
StorageResponses ==
  { [status |-> 200, ok |-> TRUE, headers |-> [none |-> TRUE], body |-> [none |-> TRUE]],
    [status |-> 403, ok |-> FALSE, headers |-> [none |-> TRUE], body |-> [none |-> TRUE]] }

\* ------------------------------------------------- VerifyPage.verify

\* the texts the input can hold
Codes == {"", "VALID123", " VALID123 ", "INVALID"}

\* line 12: the URL of the fetch, as the query the server will parse
VerifyUrlQuery(c) == << <<"code", EncodeURIComponent(c)>> >>

\* what a gateway in front of the route answers when it cannot reach it
BadGateway ==
  [status |-> 502, ok |-> FALSE, headers |-> [none |-> TRUE], body |-> [none |-> TRUE]]

\* lines 20-22: the catch block
CatchVerify(sub, err) ==
  [sub |-> [sub EXCEPT !.pc = "done"],
   result |-> Concat(<<"Error: ">>, ErrMessage(err))]

\* lines 9-12: the click, up to the await of fetch (code is not empty here)
VerifyStart(c, n) ==
  [sub |-> [pc |-> "awaitFetch", seq |-> n, code |-> c,
            query |-> VerifyUrlQuery(c), res |-> NoResp, data |-> NoResp.body],
   result |-> <<"Checking...">>]

\* line 13 and the call of res.json() on line 14
OnVerifyResponse(sub, res, cur) ==
  IF ~res.ok
    THEN CatchVerify([sub EXCEPT !.res = res], ErrorObj("Network error"))
    ELSE [sub |-> [sub EXCEPT !.res = res, !.pc = "awaitJson"], result |-> cur]

\* lines 14-19
OnVerifyJson(sub, data) ==
  [sub |-> [sub EXCEPT !.pc = "done", !.data = data],
   result |-> IF Field(data, "valid") = TRUE
                THEN Concat(<<"Valid report issued on ">>, Str(<<Field(data, "issuedAt")>>))
                ELSE <<"Invalid or unknown report code">>]

\* ------------------------------------------------------------ server actions

CallIds == 1..Len(calls)
VerifyCalls == {i \in CallIds : calls[i].kind = "verify"}
UploadCalls == {i \in CallIds : calls[i].kind = "upload"}
ReportCalls == {i \in CallIds : calls[i].kind = "report"}

ClientFrame == UNCHANGED <<file, status, runs, code, result, submits>>

\* the clock advances
Tick ==
  /\ now < MaxClock
  /\ now' = now + 1
  /\ UNCHANGED calls
  /\ ClientFrame

\* GET /api/verify?<q>: the handler has no await and answers in one step
Lookup(q) ==
  /\ Len(calls) < MaxCalls
  /\ calls' = Append(calls,
       [kind |-> "verify", query |-> q, pc |-> "done", resp |-> VerifyGET(q)])
  /\ UNCHANGED now
  /\ ClientFrame

\* POST /api/upload arrives, from an API client (origin 0) or from run
\* origin of the upload page, whose fetch is then connected to this call
IssuerRequest(origin) ==
  /\ Len(calls) < MaxCalls
  /\ origin # 0 => runs[origin].pc = "awaitPost" /\ runs[origin].conn = 0
  /\ \E u \in Draws({calls[i].key[2] : i \in UploadCalls}) :
        calls' = Append(calls, POSTBegin(u, origin))
  /\ runs' = IF origin = 0 THEN runs
             ELSE [runs EXCEPT ![origin].conn = Len(calls) + 1]
  /\ UNCHANGED <<now, file, status, code, result, submits>>

IssuerSigned(i) ==
  /\ calls[i].kind = "upload" /\ calls[i].pc = "signing"
  /\ calls' = [calls EXCEPT ![i] = POSTSigned(@)]
  /\ UNCHANGED <<now, file, status, runs, code, result, submits>>

IssuerRejected(i) ==
  /\ calls[i].kind = "upload" /\ calls[i].pc = "signing"
  /\ calls' = [calls EXCEPT ![i] = POSTRejected(@)]
  /\ UNCHANGED <<now, file, status, runs, code, result, submits>>

\* GET /api/report arrives
ReportRequest ==
  /\ Len(calls) < MaxCalls
  /\ calls' = Append(calls, ReportBegin(now))
  /\ UNCHANGED now
  /\ ClientFrame

\* PDFDocument.create() resolved: lines 11-13 run up to the await of embedFont
ReportCreated(i) ==
  /\ calls[i].kind = "report" /\ calls[i].pc = "create"
  /\ calls' = [calls EXCEPT ![i].doc = AddPageAndFont(@), ![i].pc = "embedFont"]
  /\ UNCHANGED now
  /\ ClientFrame

\* embedFont resolved: lines 15-39 run up to the await of save
ReportDrawn(i) ==
  /\ calls[i].kind = "report" /\ calls[i].pc = "embedFont"
  /\ calls' = [calls EXCEPT ![i].doc = DrawReport(@), ![i].pc = "save"]
  /\ UNCHANGED now
  /\ ClientFrame

\* save resolved: the response
ReportSaved(i) ==
  /\ calls[i].kind = "report" /\ calls[i].pc = "save"
  /\ calls' = [calls EXCEPT ![i].resp = ReportRespond(Save(calls[i].doc)),
                            ![i].pc = "done"]
  /\ UNCHANGED now
  /\ ClientFrame

\* a step of the try block throws (an awaited promise rejects, a call throws)
ReportThrows(i) ==
  /\ calls[i].kind = "report" /\ calls[i].pc \in {"create", "embedFont", "save"}
  /\ calls' = [calls EXCEPT ![i] = ReportCatch(@)]
  /\ UNCHANGED now
  /\ ClientFrame


\* ------------------------------------------------------ upload page actions

RunIds == 1..Len(runs)

UploadFrame == UNCHANGED <<calls, now, file, code, result, submits>>

\* line 108: the input's onChange (the selection changed), e.target.files?.[0] ?? null
SetFile(f) ==
  /\ f # file
  /\ file' = f
  /\ UNCHANGED <<calls, now, status, runs, code, result, submits>>

\* the Upload button (disabled while no file is chosen; line 75 returns then)
HandleUploadClick ==
  /\ file # Null
  /\ Len(runs) < MaxRuns
  /\ LET next == HandleUploadStart(file)
     IN /\ runs' = Append(runs, next.run)
        /\ status' = next.status
  /\ UploadFrame

\* the POST fetch rejects: the request never arrived, or its answer was lost
PostRejects(r) ==
  /\ runs[r].pc = "awaitPost"
  /\ LET next == CatchUpload(runs[r], FetchFailed)
     IN /\ runs' = [runs EXCEPT ![r] = next.run]
        /\ status' = next.status
  /\ UploadFrame

\* the POST fetch resolves with the Issuer's response
PostResolves(r) ==
  /\ runs[r].pc = "awaitPost"
  /\ runs[r].conn # 0
  /\ calls[runs[r].conn].pc = "done"
  /\ LET next == OnPostResponse(runs[r], calls[runs[r].conn].resp, status)
     IN /\ runs' = [runs EXCEPT ![r] = next.run]
        /\ status' = next.status
  /\ UploadFrame

\* res.json() resolves with the parsed body
JsonResolves(r) ==
  /\ runs[r].pc = "awaitJson"
  /\ LET next == OnJson(runs[r], runs[r].res.body)
     IN /\ runs' = [runs EXCEPT ![r] = next.run]
        /\ status' = next.status
  /\ UploadFrame

\* res.json() rejects: the body could not be read
JsonRejects(r) ==
  /\ runs[r].pc = "awaitJson"
  /\ LET next == CatchUpload(runs[r], FetchFailed)
     IN /\ runs' = [runs EXCEPT ![r] = next.run]
        /\ status' = next.status
  /\ UploadFrame

\* the PUT fetch resolves with storage's answer
PutResolves(r, uploadRes) ==
  /\ runs[r].pc = "awaitPut"
  /\ LET next == OnPutResponse(runs[r], uploadRes)
     IN /\ runs' = [runs EXCEPT ![r] = next.run]
        /\ status' = next.status
  /\ UploadFrame

\* the PUT fetch rejects
PutRejects(r) ==
  /\ runs[r].pc = "awaitPut"
  /\ LET next == CatchUpload(runs[r], FetchFailed)
     IN /\ runs' = [runs EXCEPT ![r] = next.run]
        /\ status' = next.status
  /\ UploadFrame

\* ------------------------------------------------------ verify page actions

SubmitIds == 1..Len(submits)

VerifyFrame == UNCHANGED <<calls, now, file, status, runs, code>>

\* line 33: the input's onChange
SetCode(c) ==
  /\ c # code
  /\ code' = c
  /\ UNCHANGED <<calls, now, file, status, runs, result, submits>>

\* the Verify button (never disabled; line 9 returns when the code is empty)
VerifyClick ==
  /\ code # ""
  /\ Len(submits) < MaxSubmits
  /\ LET next == VerifyStart(code, Len(submits) + 1)
     IN /\ submits' = Append(submits, next.sub)
        /\ result' = next.result
  /\ VerifyFrame

\* the fetch resolves with the Lookup's answer to this request
VerifyFetchResolves(i) ==
  /\ submits[i].pc = "awaitFetch"
  /\ LET next == OnVerifyResponse(submits[i], VerifyGET(submits[i].query), result)
     IN /\ submits' = [submits EXCEPT ![i] = next.sub]
        /\ result' = next.result
  /\ VerifyFrame

\* the fetch resolves with an answer that is not the route's
VerifyFetchNotOk(i) ==
  /\ submits[i].pc = "awaitFetch"
  /\ LET next == OnVerifyResponse(submits[i], BadGateway, result)
     IN /\ submits' = [submits EXCEPT ![i] = next.sub]
        /\ result' = next.result
  /\ VerifyFrame

\* the fetch, or res.json(), rejects
VerifyFetchRejects(i) ==
  /\ submits[i].pc \in {"awaitFetch", "awaitJson"}
  /\ LET next == CatchVerify(submits[i], FetchFailed)
     IN /\ submits' = [submits EXCEPT ![i] = next.sub]
        /\ result' = next.result
  /\ VerifyFrame

\* res.json() resolves with the parsed body
VerifyJsonResolves(i) ==
  /\ submits[i].pc = "awaitJson"
  /\ LET next == OnVerifyJson(submits[i], submits[i].res.body)
     IN /\ submits' = [submits EXCEPT ![i] = next.sub]
        /\ result' = next.result
  /\ VerifyFrame

\* ---------------------------------------------------------- specifications

Init ==
  /\ calls = <<>>
  /\ now = 0
  /\ file = Null
  /\ status = <<>>
  /\ runs = <<>>
  /\ code = ""
  /\ result = <<>>
  /\ submits = <<>>

\* the API, called by any client in any order
NextApi ==
  \/ Tick
  \/ \E q \in Queries : Lookup(q)
  \/ IssuerRequest(0)
  \/ \E i \in CallIds : IssuerSigned(i)
  \/ \E i \in CallIds : IssuerRejected(i)
  \/ ReportRequest
  \/ \E i \in CallIds : ReportCreated(i)
  \/ \E i \in CallIds : ReportDrawn(i)
  \/ \E i \in CallIds : ReportSaved(i)
  \/ \E i \in CallIds : ReportThrows(i)

SpecApi == Init /\ [][NextApi]_vars

\* the upload page, the Issuer it calls and storage
NextUpload ==
  \/ \E f \in Files \cup {Null} : SetFile(f)
  \/ HandleUploadClick
  \/ \E r \in RunIds : IssuerRequest(r)
  \/ \E i \in CallIds : IssuerSigned(i)
  \/ \E i \in CallIds : IssuerRejected(i)
  \/ \E r \in RunIds : PostRejects(r)
  \/ \E r \in RunIds : PostResolves(r)
  \/ \E r \in RunIds : JsonResolves(r)
  \/ \E r \in RunIds : JsonRejects(r)
  \/ \E r \in RunIds : \E uploadRes \in StorageResponses : PutResolves(r, uploadRes)
  \/ \E r \in RunIds : PutRejects(r)

SpecUpload == Init /\ [][NextUpload]_vars

\* the verify page and the Lookup it calls
NextVerifyPage ==
  \/ \E c \in Codes : SetCode(c)
  \/ VerifyClick
  \/ \E i \in SubmitIds : VerifyFetchResolves(i)
  \/ \E i \in SubmitIds : VerifyFetchNotOk(i)
  \/ \E i \in SubmitIds : VerifyFetchRejects(i)
  \/ \E i \in SubmitIds : VerifyJsonResolves(i)

SpecVerifyPage == Init /\ [][NextVerifyPage]_vars

\* ------------------------------------------------------------------ claims

\* the query's first pair named "code" exists and decodes to s
FirstCodeIs(q, s) ==
  \E i \in 1..Len(q) :
     /\ q[i][1] = "code"
     /\ \A j \in 1..(i - 1) : q[j][1] # "code"
     /\ PercentDecode(q[i][2]) = s

HasCode(q) == \E i \in 1..Len(q) : q[i][1] = "code"

Accepted == [valid |-> TRUE, issuedAt |-> "2024-01-01"]
Refused == [valid |-> FALSE]

\* C1: GET /api/verify answers {valid: true, issuedAt: "2024-01-01"} exactly
\* when the code parameter is present and is "VALID123" character for
\* character; for every other code and for an absent parameter it answers
\* {valid: false}, with no issuedAt field.
C1_ExactMatchOnly ==
  \A i \in VerifyCalls :
     IF FirstCodeIs(calls[i].query, "VALID123")
       THEN calls[i].resp.body = Accepted
       ELSE calls[i].resp.body = Refused /\ DOMAIN calls[i].resp.body = {"valid"}

C1_Witness ==
  \E i, j, k \in VerifyCalls :
     /\ FirstCodeIs(calls[i].query, "VALID123") /\ calls[i].resp.body = Accepted
     /\ FirstCodeIs(calls[j].query, "valid123") /\ calls[j].resp.body = Refused
     /\ ~HasCode(calls[k].query) /\ calls[k].resp.body = Refused

\* C2: the Lookup is stateless and deterministic: whatever requests came
\* before, to whatever endpoint, and whatever the time, two Lookup requests
\* with the same code get the same response, and the accepted code gets
\* valid: true with the fixed issuance date on every call.
C2_LookupDeterministic ==
  \A i, j \in VerifyCalls :
     /\ SearchParamsGet(calls[i].query, "code") = SearchParamsGet(calls[j].query, "code")
          => calls[i].resp = calls[j].resp
     /\ FirstCodeIs(calls[i].query, "VALID123") => calls[i].resp.body = Accepted

C2_Witness ==
  /\ now > 0
  /\ \E i, j, k \in CallIds :
       /\ i < j /\ j < k
       /\ calls[i].kind = "verify" /\ calls[k].kind = "verify"
       /\ calls[j].kind # "verify"
       /\ FirstCodeIs(calls[i].query, "VALID123")
       /\ FirstCodeIs(calls[k].query, "VALID123")
       /\ calls[k].resp.body = Accepted

Failed500 ==
  [status |-> 500, ok |-> FALSE,
   headers |-> [ContentType |-> "text/plain"],
   body |-> [text |-> "Failed to generate report"]]

\* C7: every GET /api/report ends in exactly one of two responses: status
\* 200 with Content-Type application/pdf and Content-Disposition attachment;
\* filename="sample-report.pdf" when generation completes, the plain text
\* 'Failed to generate report' with status 500 when a step throws; no error
\* escapes the handler.
C7_ReportTwoOutcomes ==
  \A i \in ReportCalls :
     /\ calls[i].pc \in {"create", "embedFont", "save", "done"}
     /\ calls[i].pc = "done" =>
          IF calls[i].threw
            THEN calls[i].resp = Failed500
            ELSE /\ calls[i].resp.status = 200
                 /\ calls[i].resp.headers =
                      [ContentType |-> "application/pdf",
                       ContentDisposition |-> "attachment; filename=\"sample-report.pdf\""]
                 /\ calls[i].resp.body = Save(calls[i].doc)
     /\ calls[i].pc # "done" => calls[i].resp = NoResp

C7_Witness ==
  \E i, j \in ReportCalls :
     /\ calls[i].pc = "done" /\ calls[i].threw /\ calls[i].resp.status = 500
     /\ calls[j].pc = "done" /\ ~calls[j].threw /\ calls[j].resp.status = 200

\* C8: the Report Generator returns byte-identical output on every
\* invocation, with Content-Type exactly application/pdf: neither an earlier
\* request nor the time of invocation influences the bytes.
C8_ByteIdentical ==
  \A i, j \in ReportCalls :
     (calls[i].pc = "done" /\ ~calls[i].threw /\ calls[j].pc = "done" /\ ~calls[j].threw)
       => /\ calls[i].resp.headers.ContentType = "application/pdf"
          /\ calls[i].resp.body = calls[j].resp.body

UploadComplete == <<"Upload complete! Your file key is ">>

IsComplete(st) == Len(st) > 0 /\ st[1] = UploadComplete[1]
IsError(st) == Len(st) > 0 /\ st[1] = "Error: "

\* C4: a successful response of POST /api/upload holds uploadUrl and no key
\* field; so the key handleUpload reads from it is undefined, and the status
\* 'Upload complete! Your file key is ...' never contains the object key the
\* Issuer generated.
C4_NoKeyInResponse ==
  /\ \A i \in UploadCalls :
        (calls[i].pc = "done" /\ calls[i].resp.ok)
          => DOMAIN calls[i].resp.body = {"uploadUrl"}
  /\ \A r \in RunIds :
        runs[r].pc = "awaitPut" =>
          /\ runs[r].key = Undefined
          /\ runs[r].uploadUrl.key = calls[runs[r].conn].key
  /\ IsComplete(status) =>
        /\ status = UploadComplete \o <<"undefined">>
        /\ \A i \in UploadCalls : ~Contains(status, calls[i].key)

C4_Witness ==
  /\ IsComplete(status)
  /\ \E r \in RunIds :
        /\ runs[r].pc = "done"
        /\ runs[r].puts[1].url.key = calls[runs[r].conn].key
        /\ calls[runs[r].conn].key \in {<<"uploads/", u>> : u \in UUIDs}

\* the Issuer's answer to run r's POST, once the server has produced it
Answered(r) == runs[r].conn # 0 /\ calls[runs[r].conn].pc = "done"
IssuerAnswer(r) == calls[runs[r].conn].resp

\* C5, the part that holds in every state: a run has sent its POST; a run that
\* is past the POST holds the Issuer's ok answer to it; a PUT, once sent, went
\* to the uploadUrl of the ok answer to this run's own POST.
C5_State ==
  \A r \in RunIds :
     /\ Len(runs[r].posts) >= 1
     /\ runs[r].pc \in {"awaitJson", "awaitPut"} =>
          /\ Answered(r)
          /\ runs[r].res = IssuerAnswer(r)
          /\ runs[r].res.ok
     /\ runs[r].puts # <<>> =>
          /\ Answered(r)
          /\ calls[runs[r].conn].origin = r
          /\ IssuerAnswer(r).ok
          /\ \A k \in 1..Len(runs[r].puts) :
                runs[r].puts[k].url = IssuerAnswer(r).body.uploadUrl

\* C5, the part about steps: a PUT is sent only in the step that follows the
\* ok answer to the run's POST; a run whose POST was rejected or answered not
\* ok ends without one.
C5_Step ==
  \A r \in RunIds :
     /\ runs'[r].puts # runs[r].puts =>
          /\ runs[r].pc = "awaitJson" /\ runs[r].res.ok
          /\ runs'[r].puts = <<PutRequest(runs[r].res.body.uploadUrl, runs[r].file)>>
     /\ (runs[r].pc = "awaitPost" /\ runs'[r].pc # "awaitPost") =>
          \/ runs'[r].pc = "awaitJson" /\ IssuerAnswer(r).ok
          \/ runs'[r].pc = "failed" /\ runs'[r].puts = <<>>
     /\ (runs[r].pc = "failed" /\ runs[r].puts = <<>>) => runs'[r].puts = <<>>

\* C5: in every run of handleUpload the POST to the Issuer comes first, and
\* the PUT is sent only after that POST returned an ok response, to the
\* uploadUrl of that same response; if the Issuer request fails or is not ok,
\* the run sends no PUT.
C5_PutOnlyAfterOkPost == []C5_State /\ [][C5_Step]_vars

C5_Witness ==
  \E r, q \in RunIds :
     /\ runs[r].puts # <<>> /\ IssuerAnswer(r).ok
     /\ runs[r].puts[1].url.key = calls[runs[r].conn].key
     /\ runs[q].pc = "failed" /\ Answered(q) /\ IssuerAnswer(q).status = 500
     /\ runs[q].puts = <<>>

\* C6, the part that holds in every state: a run sends at most one POST and
\* at most one PUT; a run goes on past a response only if the response was ok;
\* a run is done only when storage acknowledged its PUT with an ok response.
C6_State ==
  \A r \in RunIds :
     /\ Len(runs[r].posts) <= 1
     /\ Len(runs[r].puts) <= 1
     /\ runs[r].pc \in {"awaitJson", "awaitPut", "done"} => IssuerAnswer(r).ok
     /\ (runs[r].uploadRes # NoResp /\ ~runs[r].uploadRes.ok) => runs[r].pc = "failed"
     /\ runs[r].pc = "done" => runs[r].uploadRes.ok

\* C6, the part about steps: the step that ends a run in failure sets the
\* status to a text starting 'Error: ' and sends nothing; a run that has ended
\* never moves again; a run leaves an await either onwards or into failure;
\* the status becomes 'Upload complete! ...' only in a step in which a run
\* receives storage's ok answer to its PUT.
C6_Step ==
  /\ \A r \in RunIds :
        /\ (runs[r].pc # "failed" /\ runs'[r].pc = "failed")
             => /\ IsError(status')
                /\ runs'[r].posts = runs[r].posts
                /\ runs'[r].puts = runs[r].puts
        /\ runs[r].pc \in {"failed", "done"} => runs'[r] = runs[r]
        /\ (runs[r].pc = "awaitPost" /\ runs'[r].pc # "awaitPost")
             => runs'[r].pc \in {"awaitJson", "failed"}
        /\ (runs[r].pc = "awaitJson" /\ runs'[r].pc # "awaitJson")
             => runs'[r].pc \in {"awaitPut", "failed"}
        /\ (runs[r].pc = "awaitPut" /\ runs'[r].pc # "awaitPut")
             => runs'[r].pc \in {"done", "failed"}
  /\ (IsComplete(status') /\ status' # status)
        => \E r \in RunIds :
              /\ runs[r].pc = "awaitPut"
              /\ runs'[r].pc = "done"
              /\ runs'[r].uploadRes.ok

\* C6: in every run of handleUpload a failure of any step (the Issuer request
\* rejected or not ok, the PUT rejected or not ok) ends the run with the
\* status set to a text starting 'Error: ' and no further request sent: at
\* most one POST and one PUT per run, no retry; 'Upload complete! ...' is set
\* only if storage acknowledged the PUT with an ok response.
C6_FailureIsTerminal == []C6_State /\ [][C6_Step]_vars

C6_Witness ==
  \E r, q \in RunIds :
     /\ runs[r].pc = "failed" /\ runs[r].uploadRes.status = 403
     /\ Len(runs[r].posts) = 1 /\ Len(runs[r].puts) = 1
     /\ runs[q].pc = "failed" /\ Answered(q) /\ IssuerAnswer(q).status = 500
     /\ IsError(status)

\* C9: the Content-Type header of every PUT the Uploader sends equals the
\* ContentType the Issuer had the write permission signed for.
C9_PutTypeMatchesSigned ==
  \A r \in RunIds :
     \A k \in 1..Len(runs[r].puts) :
        runs[r].puts[k].contentType = runs[r].puts[k].url.contentType

\* the text the page shows for code c when its request is answered by the Lookup
OutcomeFor(c) ==
  IF VerifyGET(VerifyUrlQuery(c)).body = Accepted
    THEN <<"Valid report issued on ", "2024-01-01">>
    ELSE <<"Invalid or unknown report code">>

\* C10: when Verify is clicked several times with different codes and every
\* request is answered, in any order, then once all have completed the result
\* shown is the outcome of the most recently submitted code: the answer to an
\* earlier click never replaces the result of a later one.
C10_LatestSubmissionShown ==
  ( /\ Len(submits) >= 2
    /\ \A i \in SubmitIds : submits[i].pc = "done" /\ submits[i].data # NoResp.body
    /\ \A i, j \in SubmitIds : i # j => submits[i].code # submits[j].code )
    => result = OutcomeFor(submits[Len(submits)].code)

====
